---- MODULE Spec2Model ----
(***************************************************************************)
(* Model of src/main.py: a chat bot that mirrors ticket channels into      *)
(* records of a remote workspace and keeps the mapping ticket number ->    *)
(* record identifier in memory (TICKET_TO_PAGE_ID) and in a save file.     *)
(*                                                                         *)
(* A handler runs in steps: Dispatch hands it an event, its own action     *)
(* runs it up to the remote call it issues, RemoteOk / RemoteFail is the   *)
(* answer of the remote service, SaveOk / SaveFail the append to the save  *)
(* file, Return its end.  The event loop starts a handler only when none   *)
(* is in progress.                                                         *)
(***************************************************************************)
EXTENDS Integers, Sequences, FiniteSets, TLC

\* ------------------------------------------------------------- bounds
MaxTicket == 2
MaxPages == 2
MaxLen == 5

\* ------------------------------------------------------------- values
None == 0

OPEN_TICKET == 1
CLOSED_TICKET == 2
UNKNOWN == 3

Tickets == 1..MaxTicket
Users == {"alice", "bob"}
NoUser == ""

\* A channel name, as the two configured patterns see it: om is the number
\* in group 1 of the open-ticket pattern's match and cm the one of the
\* closed-ticket pattern's match, None when the pattern does not match.
Names == [om : {None} \cup Tickets, cm : {None} \cup Tickets]

\* message.mentions, as the list of the mentioned users' names.
MentionLists == {<<>>, <<"alice">>, <<"bob", "alice">>}

NoName == [om |-> None, cm |-> None]

\* The four inbound events.  bot: the author is the ticket bot; marker: the
\* content contains DISCORD_TICKET_START_MESSAGE; mentions: the names of the
\* mentioned users, in order.
CreateEvents ==
    {[kind |-> "create", name |-> nm, after |-> NoName, bot |-> FALSE,
      marker |-> FALSE, mentions |-> <<>>] : nm \in Names}

DeleteEvents ==
    {[kind |-> "delete", name |-> nm, after |-> NoName, bot |-> FALSE,
      marker |-> FALSE, mentions |-> <<>>] : nm \in Names}

UpdateEvents ==
    {[kind |-> "update", name |-> b, after |-> a, bot |-> FALSE,
      marker |-> FALSE, mentions |-> <<>>] : b \in Names, a \in Names}

MessageEvents ==
    {[kind |-> "message", name |-> nm, after |-> NoName, bot |-> b,
      marker |-> m, mentions |-> ms] :
        nm \in Names, b \in BOOLEAN, m \in BOOLEAN, ms \in MentionLists}

Events == CreateEvents \cup DeleteEvents \cup UpdateEvents \cup MessageEvents

NoEvent ==
    [kind |-> "none", name |-> NoName, after |-> NoName, bot |-> FALSE,
     marker |-> FALSE, mentions |-> <<>>]

\* ------------------------------------------------------------- remote calls
CreateCall(n) ==
    [api |-> "pages.create", page |-> None, title |-> n, status |-> "Open",
     closed_at |-> FALSE, author |-> NoUser]

ReopenUpdate(pid) ==
    [api |-> "pages.update", page |-> pid, title |-> None, status |-> "Open",
     closed_at |-> FALSE, author |-> NoUser]

ClosedUpdate(pid) ==
    [api |-> "pages.update", page |-> pid, title |-> None, status |-> "Closed",
     closed_at |-> TRUE, author |-> NoUser]

AuthorUpdate(pid, username) ==
    [api |-> "pages.update", page |-> pid, title |-> None, status |-> "",
     closed_at |-> FALSE, author |-> username]

ContentAppend(pid) ==
    [api |-> "blocks.children.append", page |-> pid, title |-> None,
     status |-> "", closed_at |-> FALSE, author |-> NoUser]

\* ------------------------------------------------------------- pure functions
get_channel_info_closed_first(nm) ==
    IF nm.cm # None THEN <<CLOSED_TICKET, nm.cm>>
    ELSE IF nm.om # None THEN <<OPEN_TICKET, nm.om>>
    ELSE <<UNKNOWN, None>>

get_channel_info(nm) ==
    IF nm.om # None THEN <<OPEN_TICKET, nm.om>>
    ELSE IF nm.cm # None THEN <<CLOSED_TICKET, nm.cm>>
    ELSE <<UNKNOWN, None>>

\* The save file is text: a sequence of characters, each a digit, "," or
\* "\n".  A record identifier p of the model stands for the string str(p).
DigitChars == <<"0", "1", "2", "3", "4", "5", "6", "7", "8", "9">>

\* The identifier that is the empty string.
BlankId == -1

\* str(n) of a number n >= 0, in decimal.
RECURSIVE str(_)
str(n) ==
    IF n < 10 THEN <<DigitChars[n + 1]>>
    ELSE str(n \div 10) \o <<DigitChars[(n % 10) + 1]>>

DigitValue(ch) == (CHOOSE d \in 1..10 : DigitChars[d] = ch) - 1

\* int(chars) of a non-empty string of digits.
RECURSIVE int(_)
int(chars) ==
    IF chars = <<>> THEN 0
    ELSE 10 * int(SubSeq(chars, 1, Len(chars) - 1))
         + DigitValue(chars[Len(chars)])

SwappedLine(n, pid) == str(pid) \o <<",">> \o str(n) \o <<"\n">>

\* The line on_guild_channel_create writes: f"{ticket_number},{page_id}\n".
FormatLine(n, pid) == str(n) \o <<",">> \o str(pid) \o <<"\n">>

OverwriteFile(text, line) == line

\* open(SAVE_FILE_PATH, "a") and write: the line goes to the end of the file.
AppendToFile(text, line) == text \o line

\* What a write that raises may have put at the end of the file: any
\* beginning of the line short of the whole, none of it included.
PartialWrites(line) == {SubSeq(line, 1, k) : k \in 0..(Len(line) - 1)}

\* text.split(sep): the pieces between the separators, the last one too.
RECURSIVE split(_, _, _, _)
split(text, sep, piece, acc) ==
    IF text = <<>> THEN Append(acc, piece)
    ELSE IF Head(text) = sep
    THEN split(Tail(text), sep, <<>>, Append(acc, piece))
    ELSE split(Tail(text), sep, Append(piece, Head(text)), acc)

\* for line in f, each line stripped: the text up to each line break, and
\* what follows the last line break if anything does.
FileLines(text) ==
    LET pieces == split(text, "\n", <<>>, <<>>)
    IN  IF pieces[Len(pieces)] = <<>>
        THEN SubSeq(pieces, 1, Len(pieces) - 1)
        ELSE pieces

\* ticket_number, page_id = line.strip().split(",") or int(ticket_number)
\* raises ValueError.
LineRaises(line) ==
    LET fields == split(line, ",", <<>>, <<>>)
    IN  Len(fields) # 2 \/ fields[1] = <<>>

\* TICKET_TO_PAGE_ID[k] = v, for a number of the model or any other.
Put(st, k, v) ==
    IF k \in DOMAIN st THEN [st EXCEPT ![k] = v]
    ELSE [x \in DOMAIN st \cup {k} |-> IF x = k THEN v ELSE st[x]]

\* The loop of the startup load; it ends at the first line that raises.
RECURSIVE LoadLines(_, _)
LoadLines(lines, st) ==
    IF lines = <<>> \/ LineRaises(Head(lines)) THEN st
    ELSE LET fields == split(Head(lines), ",", <<>>, <<>>)
         IN  LoadLines(Tail(lines),
                       Put(st, int(fields[1]),
                           IF fields[2] = <<>> THEN BlankId
                           ELSE int(fields[2])))

EmptyStore == [n \in Tickets |-> None]

\* The startup load does not get through the file.
LoadRaises(text) ==
    \E i \in 1..Len(FileLines(text)) : LineRaises(FileLines(text)[i])

LoadSaveFile(text) == LoadLines(FileLines(text), EmptyStore)

\* ------------------------------------------------------------- message content
\* A message's content is made of up to MaxLen of these words: a letter, a
\* blank, a line break, the word "http" and the scheme "http://".
Tokens == {"a", " ", "\n", "http", "http://"}

\* The content as text: a sequence of the pieces "a", " ", "\n", "http" and
\* "://", the scheme being "http" followed by "://".  No piece begins with
\* a character that another piece holds, so that a search or a match in the
\* text of characters starts and ends where pieces do.
RECURSIVE TextOf(_)
TextOf(words) ==
    IF words = <<>> THEN <<>>
    ELSE (IF Head(words) = "http://" THEN <<"http", "://">>
          ELSE <<Head(words)>>) \o TextOf(Tail(words))

Messages == {TextOf(w) : w \in UNION {[1..k -> Tokens] : k \in 0..MaxLen}}

\* message.attachments, as the list of their urls.
AttachmentLists == {<<>>, <<"img1">>, <<"img2", "img1">>}

\* \s of the url pattern.
IsSpace(t) == t \in {" ", "\n"}

\* https?://[^\s]+ matches at position i.
UrlStartsAt(m, i) ==
    /\ i + 2 <= Len(m)
    /\ m[i] = "http"
    /\ m[i + 1] = "://"
    /\ ~IsSpace(m[i + 2])

\* Where [^\s]+ stops for the url that starts at u.
UrlEnd(m, u) ==
    LET stops == {e \in (u + 1)..Len(m) : IsSpace(m[e])}
    IN  IF stops = {} THEN Len(m)
        ELSE (CHOOSE e \in stops : \A f \in stops : e <= f) - 1

\* Where (.*?) starts for the url at u when the scan is at pos: at pos, or
\* after the last line break before u, which "." does not match.
PrefixStart(m, pos, u) ==
    LET breaks == {b \in pos..(u - 1) : m[b] = "\n"}
    IN  IF breaks = {} THEN pos
        ELSE (CHOOSE b \in breaks : \A c \in breaks : c <= b) + 1

\* URL_REGEX_COMPILED.findall on the message from pos on: the pairs
\* (text before the url, url), left to right.
RECURSIVE findall(_, _)
findall(m, pos) ==
    LET starts == {u \in pos..Len(m) : UrlStartsAt(m, u)}
    IN  IF starts = {} THEN <<>>
        ELSE LET u == CHOOSE x \in starts : \A y \in starts : x <= y
                 e == UrlEnd(m, u)
                 s == PrefixStart(m, pos, u)
             IN  << <<SubSeq(m, s, u - 1), SubSeq(m, u, e)>> >>
                     \o findall(m, e + 1)

\* The first place at or after pos where sep occurs in m, 0 when nowhere.
FindFrom(m, sep, pos) ==
    LET hits == {i \in pos..(Len(m) - Len(sep) + 1) :
                     SubSeq(m, i, i + Len(sep) - 1) = sep}
    IN  IF hits = {} THEN 0 ELSE CHOOSE i \in hits : \A j \in hits : i <= j

\* message.split(sep)[-1]: what follows the last of the occurrences of sep
\* that split finds going left to right.
RECURSIVE SplitLast(_, _, _)
SplitLast(m, sep, pos) ==
    LET i == FindFrom(m, sep, pos)
    IN  IF i = 0 THEN SubSeq(m, pos, Len(m))
        ELSE SplitLast(m, sep, i + Len(sep))

RECURSIVE MatchParts(_)
MatchParts(matches) ==
    IF matches = <<>> THEN <<>>
    ELSE LET match == Head(matches)
         IN  (IF match[1] # <<>> THEN <<match[1]>> ELSE <<>>)
                 \o (IF match[2] # <<>> THEN <<match[2]>> ELSE <<>>)
                 \o MatchParts(Tail(matches))

split_without_early_return(message) ==
    LET parts == MatchParts(findall(message, 1))
    IN  IF parts = <<>> THEN <<>>
        ELSE LET trailing == SplitLast(message, parts[Len(parts)], 1)
             IN  IF trailing # <<>> THEN Append(parts, trailing) ELSE parts

split_message_by_link(message) ==
    LET matches == findall(message, 1)
        parts == MatchParts(matches)
    IN  IF matches = <<>> THEN <<message>>
        ELSE LET trailing == SplitLast(message, parts[Len(parts)], 1)
             IN  IF trailing # <<>> THEN Append(parts, trailing) ELSE parts

\* part.startswith("http")
StartsWithHttp(part) == part # <<>> /\ part[1] = "http"

NoLink == <<>>

RichText(part) ==
    [content |-> part, bold |-> FALSE,
     link |-> IF StartsWithHttp(part) THEN part ELSE NoLink]

AuthorPrefix(author) ==
    [content |-> <<author, ": ">>, bold |-> TRUE, link |-> NoLink]

ImageBlock(url) == [type |-> "image", rich_text |-> <<>>, url |-> url]

ParagraphBlock(rich_texts) ==
    [type |-> "paragraph", rich_text |-> rich_texts, url |-> ""]

\* The children handle_content_update appends to the record.
ContentChildren(author, message_parts, attachment_urls) ==
    <<ParagraphBlock(<<AuthorPrefix(author)>>
         \o [i \in 1..Len(message_parts) |-> RichText(message_parts[i])])>>
      \o [i \in 1..Len(attachment_urls) |-> ImageBlock(attachment_urls[i])]

\* ------------------------------------------------------------- state
VARIABLES
    store,      \* TICKET_TO_PAGE_ID
    file,       \* the text of the save file
    nextId,     \* the identifier the remote service gives its next record
    pc,         \* where the running handler is: "idle" when none runs, then
                \* "start", "remote", "save", "done"
    cur,        \* the event being handled (the last one, when idle)
    classified, \* the name last given to get_channel_info
    info,       \* what get_channel_info returned for it
    route,      \* which message handler on_message called
    page_id,    \* the handler's local page_id
    calls,      \* the remote calls issued for cur, in order
    resp,       \* the remote service's answer to the call: "none", "ok", "fail"
    saved,      \* the outcome of the file append: "none", "ok", "fail"
    result,     \* how the handler ended: "running", "returned", "raised"
    pre,        \* store and file when the handler started
    cstage,     \* handle_content_update's translation of a message: "off",
                \* then "message", "split", "built"
    content,    \* message.content
    attachments, \* message.attachments
    author,     \* message.author.name
    parts,      \* message_parts
    children,   \* the blocks given to notion.blocks.children.append
    life,       \* one ticket channel on the chat platform, over its life
    remote      \* the records of the remote service

botVars == <<store, file, nextId, pc, cur, classified, info, route, page_id,
             calls, resp, saved, result, pre>>

contentVars == <<cstage, content, attachments, author, parts, children>>

worldVars == <<life, remote>>

vars == <<botVars, contentVars, worldVars>>

\* No message is being translated.
ContentOff ==
    /\ cstage = "off"
    /\ content = <<>>
    /\ attachments = <<>>
    /\ author = NoUser
    /\ parts = <<>>
    /\ children = <<>>

NoLife ==
    [phase |-> "absent", n |-> None, name |-> NoName, rec |-> None,
     clean |-> FALSE]

NoRecord == [status |-> "none", closes |-> 0]

\* The channel and the remote records are not looked at.
WorldOff ==
    /\ life = NoLife
    /\ remote = [p \in 1..MaxPages |-> NoRecord]

\* The save files the process may start from: none or empty, or one line
\* left by an earlier run.  Identifier 1 is the one the remote service gave
\* out before the process started, so the next one is 2.
InitFiles == {<<>>} \cup {FormatLine(n, 1) : n \in Tickets}

Init ==
    /\ file \in InitFiles
    /\ store = LoadSaveFile(file)
    /\ nextId = 2
    /\ pc = "idle"
    /\ cur = NoEvent
    /\ classified = NoName
    /\ info = <<UNKNOWN, None>>
    /\ route = "none"
    /\ page_id = None
    /\ calls = <<>>
    /\ resp = "none"
    /\ saved = "none"
    /\ result = "returned"
    /\ pre = [store |-> store, file |-> file]
    /\ ContentOff
    /\ WorldOff

\* ------------------------------------------------------------- event loop
LoopRunsAnyTime == TRUE

\* No handler awaits, so the loop starts the next one when this one is done.
LoopIdle == pc = "idle"

Dispatch(e) ==
    /\ LoopIdle
    /\ e.kind = "create" => nextId <= MaxPages
    /\ cur' = e
    /\ pc' = "start"
    /\ classified' = NoName
    /\ info' = <<UNKNOWN, None>>
    /\ route' = "none"
    /\ page_id' = None
    /\ calls' = <<>>
    /\ resp' = "none"
    /\ saved' = "none"
    /\ result' = "running"
    /\ pre' = [store |-> store, file |-> file]
    /\ UNCHANGED <<store, file, nextId>>

\* The handler ends without a (further) remote call.
Finish(how) ==
    /\ pc' = "done"
    /\ result' = how

\* The ended handler gives control back to the event loop; its locals are gone.
Return ==
    /\ pc = "done"
    /\ pc' = "idle"
    /\ cur' = NoEvent
    /\ classified' = NoName
    /\ info' = <<UNKNOWN, None>>
    /\ route' = "none"
    /\ page_id' = None
    /\ calls' = <<>>
    /\ resp' = "none"
    /\ saved' = "none"
    /\ result' = "returned"
    /\ pre' = [store |-> store, file |-> file]
    /\ UNCHANGED <<store, file, nextId>>

\* The handler issues call c and blocks on it.
Issue(c) ==
    /\ calls' = Append(calls, c)
    /\ pc' = "remote"
    /\ UNCHANGED result

\* ------------------------------------------------------------- handlers
CreateUnlessClosed(channel_type) == channel_type # CLOSED_TICKET

\* on_guild_channel_create goes on for an open-ticket channel only.
CreateProceeds(channel_type) == channel_type = OPEN_TICKET

on_guild_channel_create ==
    /\ pc = "start"
    /\ cur.kind = "create"
    /\ classified' = cur.name
    /\ info' = get_channel_info(cur.name)
    /\ IF CreateProceeds(info'[1])
       THEN Issue(CreateCall(info'[2]))
       ELSE Finish("returned") /\ UNCHANGED calls
    /\ UNCHANGED <<store, file, nextId, cur, route, page_id, resp, saved, pre>>

\* The lookup TICKET_TO_PAGE_ID[ticket_number] inside a try block, followed by
\* the update that closes the record: a missing key is caught and logged.
CloseRecord(n) ==
    IF n = None \/ store[n] = None
    THEN Finish("returned") /\ UNCHANGED <<page_id, calls>>
    ELSE page_id' = store[n] /\ Issue(ClosedUpdate(store[n]))

DeleteUnlessUnknown(channel_type) == channel_type # UNKNOWN

\* on_guild_channel_delete goes on for an open-ticket channel only.
DeleteProceeds(channel_type) == channel_type = OPEN_TICKET

on_guild_channel_delete ==
    /\ pc = "start"
    /\ cur.kind = "delete"
    /\ classified' = cur.name
    /\ info' = get_channel_info(cur.name)
    /\ IF DeleteProceeds(info'[1])
       THEN CloseRecord(info'[2])
       ELSE Finish("returned") /\ UNCHANGED <<page_id, calls>>
    /\ UNCHANGED <<store, file, nextId, cur, route, resp, saved, pre>>

UpdateIgnoresBefore(before_channel_type, after_channel_type) ==
    after_channel_type = CLOSED_TICKET

\* on_guild_channel_update goes on for a rename from open to closed only.
UpdateProceeds(before_channel_type, after_channel_type) ==
    /\ before_channel_type = OPEN_TICKET
    /\ after_channel_type = CLOSED_TICKET

UpdateNumberOfOldName(before, after) == before[2]

\* The ticket_number on_guild_channel_update works with: the new name's.
UpdateTicketNumber(before, after) == after[2]

on_guild_channel_update ==
    /\ pc = "start"
    /\ cur.kind = "update"
    /\ LET before == get_channel_info(cur.name)
           after == get_channel_info(cur.after)
       IN  /\ IF before[1] # OPEN_TICKET
              THEN classified' = cur.name /\ info' = before
              ELSE classified' = cur.after /\ info' = after
           /\ IF UpdateProceeds(before[1], after[1])
              THEN CloseRecord(UpdateTicketNumber(before, after))
              ELSE Finish("returned") /\ UNCHANGED <<page_id, calls>>
    /\ UNCHANGED <<store, file, nextId, cur, route, resp, saved, pre>>

MessageRouteNoAuthorCheck(channel_type, bot, marker) ==
    IF channel_type = UNKNOWN THEN "none"
    ELSE IF channel_type = OPEN_TICKET /\ bot /\ marker THEN "author"
    ELSE IF channel_type = OPEN_TICKET THEN "content"
    ELSE "none"

\* The branch on_message takes.
MessageRoute(channel_type, bot, marker) ==
    IF channel_type = UNKNOWN THEN "none"
    ELSE IF channel_type = OPEN_TICKET /\ bot /\ marker THEN "author"
    ELSE IF channel_type = OPEN_TICKET /\ ~bot THEN "content"
    ELSE "none"

AuthorRequestsWithoutMentionCheck(mentioned_users, pid) ==
    IF Len(mentioned_users) = 0 THEN <<AuthorUpdate(pid, NoUser)>>
    ELSE <<AuthorUpdate(pid, mentioned_users[1])>>

\* The update handle_author_resolution is to send: none without a mention.
AuthorRequests(mentioned_users, pid) ==
    IF Len(mentioned_users) = 0 THEN <<>>
    ELSE <<AuthorUpdate(pid, mentioned_users[1])>>

\* The lookup TICKET_TO_PAGE_ID[ticket_number] is outside the try block here.
handle_author_resolution(n) ==
    LET reqs == AuthorRequests(cur.mentions, store[n])
    IN  IF reqs = <<>>
        THEN Finish("returned") /\ UNCHANGED <<page_id, calls>>
        ELSE IF store[n] = None
        THEN Finish("raised") /\ UNCHANGED <<page_id, calls>>
        ELSE page_id' = store[n] /\ Issue(reqs[1])

handle_content_update(n) ==
    IF store[n] = None
    THEN Finish("returned") /\ UNCHANGED <<page_id, calls>>
    ELSE page_id' = store[n] /\ Issue(ContentAppend(store[n]))

on_message ==
    /\ pc = "start"
    /\ cur.kind = "message"
    /\ classified' = cur.name
    /\ info' = get_channel_info(cur.name)
    /\ route' = MessageRoute(info'[1], cur.bot, cur.marker)
    /\ IF route' = "author" THEN handle_author_resolution(info'[2])
       ELSE IF route' = "content" THEN handle_content_update(info'[2])
       ELSE Finish("returned") /\ UNCHANGED <<page_id, calls>>
    /\ UNCHANGED <<store, file, nextId, cur, resp, saved, pre>>

\* ------------------------------------------------------------- remote service
OnRemoteErrorPropagates == "raised"

\* except Exception: the error is logged and the handler returns.
OnRemoteError == "returned"

StoreForgetsDeleted(st, kind, n, pid) ==
    IF kind = "create" THEN [st EXCEPT ![n] = pid]
    ELSE IF kind = "delete" THEN [st EXCEPT ![n] = None]
    ELSE st

\* TICKET_TO_PAGE_ID after a handler's call succeeded: on_guild_channel_create
\* is the one handler that assigns to it.
StoreAfterCall(st, kind, n, pid) ==
    IF kind = "create" THEN [st EXCEPT ![n] = pid] ELSE st

\* The call succeeds.  pages.create answers with a fresh identifier, which
\* on_guild_channel_create stores before it opens the save file.
RemoteOk ==
    /\ pc = "remote"
    /\ resp' = "ok"
    /\ IF cur.kind = "create"
       THEN /\ page_id' = nextId
            /\ nextId' = nextId + 1
            /\ pc' = "save"
            /\ UNCHANGED result
       ELSE /\ Finish("returned")
            /\ UNCHANGED <<page_id, nextId>>
    /\ store' = StoreAfterCall(store, cur.kind, info[2], nextId)
    /\ UNCHANGED <<file, cur, classified, info, route, calls, saved, pre>>

\* The call raises.
RemoteFail ==
    /\ pc = "remote"
    /\ resp' = "fail"
    /\ Finish(OnRemoteError)
    /\ UNCHANGED <<store, file, nextId, cur, classified, info, route, page_id,
                   calls, saved, pre>>

\* ------------------------------------------------------------- save file
SaveOk ==
    /\ pc = "save"
    /\ file' = AppendToFile(file, FormatLine(info[2], page_id))
    /\ saved' = "ok"
    /\ Finish("returned")
    /\ UNCHANGED <<store, nextId, cur, classified, info, route, page_id, calls,
                   resp, pre>>

\* open() or write() raises: the handler's except block logs it.  The file
\* keeps what the write had put into it before it raised.
SaveFail ==
    /\ pc = "save"
    /\ \E part \in PartialWrites(FormatLine(info[2], page_id)) :
          file' = AppendToFile(file, part)
    /\ saved' = "fail"
    /\ Finish("returned")
    /\ UNCHANGED <<store, nextId, cur, classified, info, route, page_id,
                   calls, resp, pre>>

Next ==
    \/ (\E e \in Events : Dispatch(e)) /\ UNCHANGED <<contentVars, worldVars>>
    \/ on_guild_channel_create /\ UNCHANGED <<contentVars, worldVars>>
    \/ on_guild_channel_delete /\ UNCHANGED <<contentVars, worldVars>>
    \/ on_guild_channel_update /\ UNCHANGED <<contentVars, worldVars>>
    \/ on_message /\ UNCHANGED <<contentVars, worldVars>>
    \/ RemoteOk /\ UNCHANGED <<contentVars, worldVars>>
    \/ RemoteFail /\ UNCHANGED <<contentVars, worldVars>>
    \/ SaveOk /\ UNCHANGED <<contentVars, worldVars>>
    \/ SaveFail /\ UNCHANGED <<contentVars, worldVars>>
    \/ Return /\ UNCHANGED <<contentVars, worldVars>>

Spec == Init /\ [][Next]_vars

\* ------------------------------------------------------------- message translation
\* handle_content_update on its own: a message of a user arrives, is split
\* at its links, and is turned into the blocks to append.
ContentInit ==
    /\ store = EmptyStore
    /\ file = <<>>
    /\ nextId = 1
    /\ pc = "idle"
    /\ cur = NoEvent
    /\ classified = NoName
    /\ info = <<UNKNOWN, None>>
    /\ route = "none"
    /\ page_id = None
    /\ calls = <<>>
    /\ resp = "none"
    /\ saved = "none"
    /\ result = "returned"
    /\ pre = [store |-> store, file |-> file]
    /\ cstage = "message"
    /\ content \in Messages
    /\ attachments \in AttachmentLists
    /\ author \in Users
    /\ parts = <<>>
    /\ children = <<>>
    /\ WorldOff

SplitContent ==
    /\ cstage = "message"
    /\ cstage' = "split"
    /\ parts' = split_message_by_link(content)
    /\ UNCHANGED <<botVars, worldVars, content, attachments, author, children>>

BuildChildren ==
    /\ cstage = "split"
    /\ cstage' = "built"
    /\ children' = ContentChildren(author, parts, attachments)
    /\ UNCHANGED <<botVars, worldVars, content, attachments, author, parts>>

ContentNext == SplitContent \/ BuildChildren

SpecContent == ContentInit /\ [][ContentNext]_vars

\* ------------------------------------------------------------- one channel's life
\* The bot together with one ticket channel of the chat platform and the
\* records of the remote service.  The channel is created under an
\* open-ticket name for number life.n; while open it gets messages, is
\* renamed to the closed-ticket name or is deleted; while closed it gets
\* messages or is deleted; once gone it may be created again.
\* life.rec is the record created for the channel, life.clean says that no
\* remote call has failed since the channel was created.

\* A count of up to two: 2 stands for twice or more.
CountUp(c) == IF c < 2 THEN c + 1 ELSE c

\* What a successful call does to the records: pages.create makes the
\* record newId, pages.update sets the properties it is given.
ApplyCall(rem, c, newId) ==
    IF c.api = "pages.create"
    THEN [rem EXCEPT ![newId] = [status |-> c.status, closes |-> 0]]
    ELSE IF c.api = "pages.update"
    THEN [rem EXCEPT ![c.page] =
             [status |-> IF c.status # "" THEN c.status ELSE @.status,
              closes |-> IF c.closed_at THEN CountUp(@.closes) ELSE @.closes]]
    ELSE rem

OpenNames(n) == {nm \in Names : nm.om = n}

ClosedName(n) == [om |-> None, cm |-> n]

\* The events the chat platform can send for the channel as it is.
LifeEvents ==
    IF life.phase \in {"absent", "deleted"}
    THEN {e \in CreateEvents : e.name \in OpenNames(life.n)}
    ELSE {e \in MessageEvents \cup DeleteEvents : e.name = life.name}
         \cup {e \in UpdateEvents : /\ life.phase = "open"
                                     /\ e.name = life.name
                                     /\ e.after = ClosedName(life.n)}

\* The channel after the platform has sent e.
LifeAfter(e) ==
    IF e.kind = "create"
    THEN [life EXCEPT !.phase = "open", !.name = e.name, !.rec = None,
                      !.clean = TRUE]
    ELSE IF e.kind = "update"
    THEN [life EXCEPT !.phase = "closed", !.name = e.after]
    ELSE IF e.kind = "delete"
    THEN [life EXCEPT !.phase = IF life.phase = "closed" THEN "deleted"
                                ELSE "absent"]
    ELSE life

LifeInit ==
    /\ file \in InitFiles
    /\ store = LoadSaveFile(file)
    /\ nextId = 2
    /\ pc = "idle"
    /\ cur = NoEvent
    /\ classified = NoName
    /\ info = <<UNKNOWN, None>>
    /\ route = "none"
    /\ page_id = None
    /\ calls = <<>>
    /\ resp = "none"
    /\ saved = "none"
    /\ result = "returned"
    /\ pre = [store |-> store, file |-> file]
    /\ ContentOff
    /\ \E n \in Tickets : life = [NoLife EXCEPT !.n = n]
    /\ \E st \in {"Open", "Closed"} :
          remote = [p \in 1..MaxPages |->
                       IF p <= Len(FileLines(file))
                       THEN [status |-> st,
                             closes |-> IF st = "Closed" THEN 1 ELSE 0]
                       ELSE NoRecord]

LifeDispatch ==
    /\ \E e \in LifeEvents : Dispatch(e) /\ life' = LifeAfter(e)
    /\ UNCHANGED <<remote, contentVars>>

LifeRemoteOk ==
    /\ RemoteOk
    /\ remote' = ApplyCall(remote, calls[Len(calls)], nextId)
    /\ life' = IF cur.kind = "create" THEN [life EXCEPT !.rec = nextId]
               ELSE life
    /\ UNCHANGED contentVars

LifeRemoteFail ==
    /\ RemoteFail
    /\ life' = [life EXCEPT !.clean = FALSE]
    /\ UNCHANGED <<remote, contentVars>>

LifeNext ==
    \/ LifeDispatch
    \/ on_guild_channel_create /\ UNCHANGED <<contentVars, worldVars>>
    \/ on_guild_channel_delete /\ UNCHANGED <<contentVars, worldVars>>
    \/ on_guild_channel_update /\ UNCHANGED <<contentVars, worldVars>>
    \/ on_message /\ UNCHANGED <<contentVars, worldVars>>
    \/ LifeRemoteOk
    \/ LifeRemoteFail
    \/ SaveOk /\ UNCHANGED <<contentVars, worldVars>>
    \/ SaveFail /\ UNCHANGED <<contentVars, worldVars>>
    \/ Return /\ UNCHANGED <<contentVars, worldVars>>

SpecLife == LifeInit /\ [][LifeNext]_vars

\* ------------------------------------------------------------- vocabulary of the properties
\* A handler has ended and its locals are still in view.
Handled == pc = "done"

IsOpenName(nm) == nm.om # None
IsClosedName(nm) == nm.om = None /\ nm.cm # None
IsUnknownName(nm) == nm.om = None /\ nm.cm = None
IsTicketName(nm) == nm.om # None \/ nm.cm # None

\* The ticket number of a ticket channel's name.
NumberOf(nm) == IF nm.om # None THEN nm.om ELSE nm.cm

IsPrefix(s, t) == Len(s) <= Len(t) /\ SubSeq(t, 1, Len(s)) = s

Unchanged == store = pre.store /\ file = pre.file

\* ------------------------------------------------------------- C1
\* C1: once TICKET_TO_PAGE_ID holds an identifier for a ticket number, no
\* later step changes it.
C1_IdentifierNeverOverwritten ==
    [][\A n \in Tickets : store[n] # None => store'[n] = store[n]]_vars

\* ------------------------------------------------------------- C2
\* The line "N,I" the claims speak of, with its line break.
LineNI(n, i) == str(n) \o <<",">> \o str(i) \o <<"\n">>

\* C2 as stated: after a channel-create for an open-ticket name with number
\* N whose record creation succeeded with identifier I, the store maps N to
\* I and the save file is the old one with the one line "N,I" appended.
C2_CreateStoresAndAppends ==
    (Handled /\ cur.kind = "create" /\ IsOpenName(cur.name) /\ resp = "ok")
        => /\ store[cur.name.om] = page_id
           /\ file = pre.file \o LineNI(cur.name.om, page_id)

\* C2, amended: the store maps N to I; the save file has the one line "N,I"
\* appended when the append succeeded, and when the append failed it is as
\* it was, followed by no more than a beginning of that line.
C2_CreateStoresAndAppendsIfWritable ==
    (Handled /\ cur.kind = "create" /\ IsOpenName(cur.name) /\ resp = "ok")
        => /\ store[cur.name.om] = page_id
           /\ IF saved = "ok"
              THEN file = pre.file \o LineNI(cur.name.om, page_id)
              ELSE \E part \in PartialWrites(LineNI(cur.name.om, page_id)) :
                      file = pre.file \o part

C2_Witness ==
    /\ Handled
    /\ cur.kind = "create"
    /\ IsOpenName(cur.name)
    /\ resp = "ok"
    /\ saved = "ok"
    /\ cur.name.om # page_id
    /\ store[cur.name.om] = page_id
    /\ file = pre.file \o LineNI(cur.name.om, page_id)

\* ------------------------------------------------------------- C3
\* C3: a handler whose remote call failed has returned normally, has issued
\* that one call only, and has left the store and the save file as they were.
C3_RemoteFailureSwallowed ==
    (Handled /\ resp = "fail")
        => /\ result = "returned"
           /\ Len(calls) = 1
           /\ Unchanged

C3_Witness ==
    /\ Handled
    /\ resp = "fail"
    /\ cur.kind = "create"
    /\ IsOpenName(cur.name)
    /\ store[cur.name.om] = None

\* ------------------------------------------------------------- C4
\* C4: a handler starts only when no handler is in progress, and while one
\* is in progress every step belongs to its event.
C4_HandlersNeverInterleave ==
    [][/\ pc' = "start" => pc = "idle"
       /\ pc \in {"start", "remote", "save"} => cur' = cur]_vars

\* A create handler between its store update and its file append.
C4_Witness ==
    /\ pc = "save"
    /\ store # pre.store
    /\ file = pre.file

\* ------------------------------------------------------------- C5
\* C5 as stated: a delete of a ticket channel (open or closed name) with
\* mapped number, and a rename from an open to a closed name with mapped
\* number, each issue exactly the one update closing the stored record; any
\* other rename issues no call.
C5_AnyTicketDeleteCloses ==
    Handled =>
        /\ (cur.kind = "delete" /\ IsTicketName(cur.name)
                /\ store[NumberOf(cur.name)] # None)
            => calls = <<ClosedUpdate(store[NumberOf(cur.name)])>>
        /\ (cur.kind = "update" /\ IsOpenName(cur.name) /\ IsClosedName(cur.after)
                /\ store[cur.after.cm] # None)
            => calls = <<ClosedUpdate(store[cur.after.cm])>>
        /\ (cur.kind = "update"
                /\ ~(IsOpenName(cur.name) /\ IsClosedName(cur.after)))
            => calls = <<>>

\* C5, amended: the same for the delete of an open-ticket channel.
C5_OpenDeleteAndRenameClose ==
    Handled =>
        /\ (cur.kind = "delete" /\ IsOpenName(cur.name)
                /\ store[cur.name.om] # None)
            => calls = <<ClosedUpdate(store[cur.name.om])>>
        /\ (cur.kind = "update" /\ IsOpenName(cur.name) /\ IsClosedName(cur.after)
                /\ store[cur.after.cm] # None)
            => calls = <<ClosedUpdate(store[cur.after.cm])>>
        /\ (cur.kind = "update"
                /\ ~(IsOpenName(cur.name) /\ IsClosedName(cur.after)))
            => calls = <<>>

C5_Witness ==
    /\ Handled
    /\ cur.kind = "delete"
    /\ IsOpenName(cur.name)
    /\ store[cur.name.om] # None
    /\ Len(calls) = 1
    /\ calls[1].status = "Closed"
    /\ calls[1].closed_at

\* ------------------------------------------------------------- C6
\* C6 as stated: a marker message of the ticket bot in an open-ticket channel
\* is routed to author resolution and causes the one Author update with the
\* first mentioned user; a message of anyone else there is routed to the
\* content append and causes appends to the ticket's record only; other bot
\* messages and messages in closed-ticket channels cause no call; no message
\* causes more than one call.
C6_MarkerMessageAlwaysUpdates ==
    (Handled /\ cur.kind = "message") =>
        /\ Len(calls) <= 1
        /\ (IsOpenName(cur.name) /\ cur.bot /\ cur.marker)
            => /\ route = "author"
               /\ Len(calls) = 1
               /\ Len(cur.mentions) > 0
               /\ calls[1] = AuthorUpdate(store[cur.name.om], cur.mentions[1])
        /\ (IsOpenName(cur.name) /\ ~cur.bot)
            => /\ route = "content"
               /\ \A i \in 1..Len(calls) :
                      calls[i] = ContentAppend(store[cur.name.om])
        /\ ((IsOpenName(cur.name) /\ cur.bot /\ ~cur.marker)
                \/ IsClosedName(cur.name))
            => calls = <<>>

\* C6, amended: the Author update is issued when a user is mentioned and the
\* number is mapped, the append when the number is mapped; otherwise the
\* routed handler issues no call.
C6_MessageRouting ==
    (Handled /\ cur.kind = "message") =>
        /\ Len(calls) <= 1
        /\ (IsOpenName(cur.name) /\ cur.bot /\ cur.marker)
            => /\ route = "author"
               /\ calls = IF Len(cur.mentions) > 0 /\ store[cur.name.om] # None
                          THEN <<AuthorUpdate(store[cur.name.om], cur.mentions[1])>>
                          ELSE <<>>
        /\ (IsOpenName(cur.name) /\ ~cur.bot)
            => /\ route = "content"
               /\ calls = IF store[cur.name.om] # None
                          THEN <<ContentAppend(store[cur.name.om])>>
                          ELSE <<>>
        /\ ((IsOpenName(cur.name) /\ cur.bot /\ ~cur.marker)
                \/ IsClosedName(cur.name))
            => calls = <<>>

C6_Witness ==
    /\ Handled
    /\ cur.kind = "message"
    /\ IsOpenName(cur.name)
    /\ cur.bot
    /\ cur.marker
    /\ cur.mentions = <<"bob", "alice">>
    /\ calls = <<AuthorUpdate(store[cur.name.om], "bob")>>

\* ------------------------------------------------------------- C7
\* C7 as stated: the save file only grows at its end, only a create handler
\* whose record creation succeeded changes it, and such a handler ends with
\* one line more in the file than it started with.
C7_AppendOnlyOneLinePerCreate ==
    [][/\ IsPrefix(file, file')
       /\ file' # file => cur.kind = "create" /\ resp = "ok"
       /\ (pc # "done" /\ pc' = "done" /\ cur.kind = "create" /\ resp' = "ok")
            => file' = pre.file \o LineNI(info[2], page_id)]_vars

\* C7, amended: such a handler ends with its line added when its append
\* succeeded, and with no more than a beginning of the line added when its
\* append failed.
C7_AppendOnlyAtMostOneLinePerCreate ==
    [][/\ IsPrefix(file, file')
       /\ file' # file => cur.kind = "create" /\ resp = "ok"
       /\ (pc # "done" /\ pc' = "done" /\ cur.kind = "create" /\ resp' = "ok")
            => IF saved' = "ok"
               THEN file' = pre.file \o LineNI(info[2], page_id)
               ELSE \E part \in PartialWrites(LineNI(info[2], page_id)) :
                       file' = pre.file \o part]_vars

\* A create handler has appended its line after an older one.
C7_Witness ==
    /\ Handled
    /\ cur.kind = "create"
    /\ saved = "ok"
    /\ Len(pre.file) >= 1
    /\ IsPrefix(pre.file, file)
    /\ Len(FileLines(file)) = Len(FileLines(pre.file)) + 1

\* ------------------------------------------------------------- C8
\* An event on a channel whose name matches neither pattern; for a rename,
\* the name before it or the name after it.
OnUnknownChannel ==
    IF cur.kind = "update"
    THEN IsUnknownName(cur.name) \/ IsUnknownName(cur.after)
    ELSE cur.kind # "none" /\ IsUnknownName(cur.name)

\* C8: an event on a channel whose name matches neither pattern causes no
\* remote call and leaves the store and the save file unchanged.
C8_UnknownChannelIgnored ==
    (Handled /\ OnUnknownChannel) => calls = <<>> /\ Unchanged

C8_Witness ==
    /\ Handled
    /\ cur.kind = "create"
    /\ IsUnknownName(cur.name)
    /\ calls = <<>>

\* ------------------------------------------------------------- C9
\* C9: a marker message of the ticket bot in an open-ticket channel that
\* mentions nobody causes no remote call, changes neither the store nor the
\* save file, and the handler returns normally.
C9_NoMentionSkipped ==
    (Handled /\ cur.kind = "message" /\ IsOpenName(cur.name) /\ cur.bot
            /\ cur.marker /\ cur.mentions = <<>>)
        => calls = <<>> /\ Unchanged /\ result = "returned"

C9_Witness ==
    /\ Handled
    /\ cur.kind = "message"
    /\ IsOpenName(cur.name)
    /\ cur.bot
    /\ cur.marker
    /\ cur.mentions = <<>>
    /\ store[cur.name.om] = None
    /\ result = "returned"

\* ------------------------------------------------------------- C10
\* C10: get_channel_info answers (OPEN_TICKET, N) with the open pattern's
\* number for a name the open pattern matches, whether or not the closed
\* pattern matches too, (CLOSED_TICKET, N) with the closed pattern's number
\* for a name only the closed pattern matches, and (UNKNOWN, None) otherwise.
C10_Classification ==
    /\ classified.om # None => info = <<OPEN_TICKET, classified.om>>
    /\ (classified.om = None /\ classified.cm # None)
        => info = <<CLOSED_TICKET, classified.cm>>
    /\ (classified.om = None /\ classified.cm = None) => info = <<UNKNOWN, None>>

\* A name both patterns match, with different numbers.
C10_Witness ==
    /\ classified.om # None
    /\ classified.cm # None
    /\ classified.om # classified.cm
    /\ info = <<OPEN_TICKET, classified.om>>

\* ------------------------------------------------------------- C11
RECURSIVE Flatten(_)
Flatten(segments) ==
    IF segments = <<>> THEN <<>>
    ELSE Head(segments) \o Flatten(Tail(segments))

\* C11: the segments split_message_by_link returns, put together in order,
\* are the message.
C11_SegmentsReproduceMessage ==
    cstage \in {"split", "built"} => Flatten(parts) = content

\* ------------------------------------------------------------- C12
\* The message has no "http://" followed by a character that is not blank.
ContainsNoUrl(m) ==
    \A i \in 1..(Len(m) - 2) :
        ~(m[i] = "http" /\ m[i + 1] = "://" /\ m[i + 2] \notin {" ", "\n"})

\* C12: for a message without a url, split_message_by_link returns the
\* message as its one segment.
C12_NoUrlOneSegment ==
    (cstage \in {"split", "built"} /\ ContainsNoUrl(content))
        => parts = <<content>>

\* A message of two lines with a bare "http://" in it.
C12_Witness ==
    /\ cstage = "split"
    /\ ContainsNoUrl(content)
    /\ \E i \in 1..(Len(content) - 1) :
          content[i] = "http" /\ content[i + 1] = "://"
    /\ \E i \in 1..Len(content) : content[i] = "\n"
    /\ parts = <<content>>

\* ------------------------------------------------------------- C13
\* The segment is a url: "http://" and what follows it up to the next blank.
IsUrlText(part) ==
    /\ Len(part) >= 3
    /\ part[1] = "http"
    /\ part[2] = "://"
    /\ \A i \in 1..Len(part) : part[i] \notin {" ", "\n"}

\* C13: the paragraph's rich text is the bold author prefix followed by the
\* segments in order, a segment carries a link (to itself) exactly when it is
\* a url, and the paragraph is followed by one image block per attachment, in
\* order.
C13_LinksExactlyOnUrls ==
    cstage = "built" =>
        /\ Len(children) = 1 + Len(attachments)
        /\ children[1].type = "paragraph"
        /\ LET rich_texts == children[1].rich_text
           IN  /\ Len(rich_texts) = 1 + Len(parts)
               /\ rich_texts[1].content = <<author, ": ">>
               /\ rich_texts[1].bold
               /\ \A i \in 1..Len(parts) :
                      /\ rich_texts[i + 1].content = parts[i]
                      /\ rich_texts[i + 1].link # NoLink <=> IsUrlText(parts[i])
                      /\ rich_texts[i + 1].link # NoLink
                            => rich_texts[i + 1].link = parts[i]
        /\ \A j \in 1..Len(attachments) :
               /\ children[j + 1].type = "image"
               /\ children[j + 1].url = attachments[j]

\* ------------------------------------------------------------- C14
\* C14: between events, reading the save file as the startup loader does
\* gets through the file and gives the store.
C14_FileReplaysToStore ==
    pc = "idle" => ~LoadRaises(file) /\ LoadSaveFile(file) = store

\* ------------------------------------------------------------- C15
\* C15: no handler ends with an exception that nothing caught.
C15_NoHandlerRaises == Handled => result = "returned"

\* ------------------------------------------------------------- C16
\* C16: no step of a delete, update or message handler changes the store or
\* the save file, and no step at all takes a ticket number out of the store.
C16_OnlyCreateChangesMapping ==
    [][/\ cur.kind # "create" => store' = store /\ file' = file
       /\ \A n \in Tickets : store[n] # None => store'[n] # None]_vars

\* A delete handler whose update succeeded, with the number still mapped.
C16_Witness ==
    /\ Handled
    /\ cur.kind = "delete"
    /\ resp = "ok"
    /\ IsOpenName(cur.name)
    /\ store[cur.name.om] # None
    /\ Unchanged

\* ------------------------------------------------------------- C17
\* The ticket number of the event's channel; for a rename, of the new name.
EventNumber ==
    IF cur.kind = "update" THEN NumberOf(cur.after) ELSE NumberOf(cur.name)

\* C17: every update or append issued goes to the record the store holds
\* for the event's ticket number, and that identifier is one the remote
\* service gave out: loaded from the save file or returned by a creation.
C17_CallsAddressStoredRecord ==
    \A i \in 1..Len(calls) :
        calls[i].api # "pages.create"
            => /\ EventNumber # None
               /\ calls[i].page = store[EventNumber]
               /\ calls[i].page >= 1
               /\ calls[i].page < nextId

\* A rename whose old and new names carry different numbers.
C17_Witness ==
    /\ Handled
    /\ cur.kind = "update"
    /\ IsOpenName(cur.name)
    /\ IsClosedName(cur.after)
    /\ cur.name.om # cur.after.cm
    /\ store[cur.name.om] # store[cur.after.cm]
    /\ calls = <<ClosedUpdate(store[cur.after.cm])>>

\* ------------------------------------------------------------- C18
\* C18: a record that is Closed stays Closed, a record becomes Open only
\* by coming into being through a create handler's call, and no call other
\* than pages.create asks for the status Open.
C18_StatusMonotonic ==
    [][/\ \A p \in 1..MaxPages :
            /\ remote[p].status = "Closed" => remote'[p].status = "Closed"
            /\ (remote'[p].status = "Open" /\ remote[p].status # "Open")
                => remote[p].status = "none" /\ cur.kind = "create"
       /\ \A i \in 1..Len(calls') :
            calls'[i].status = "Open" => calls'[i].api = "pages.create"]_vars

\* A closed record is left alone while the channel's number gets a new one.
C18_Witness ==
    /\ Handled
    /\ cur.kind = "create"
    /\ resp = "ok"
    /\ remote[page_id].status = "Open"
    /\ \E p \in 1..MaxPages :
          p # page_id /\ pre.store[life.n] = p /\ remote[p].status = "Closed"

\* ------------------------------------------------------------- C19
\* C19: for a channel created under an open-ticket name, renamed to the
\* closed-ticket name and then deleted, with no remote call failing, the
\* rename issues the one Closed update of the channel's record, the record's
\* Closed At is written once, and a message in the renamed channel and its
\* deletion issue no remote call.
C19_ClosedOnceByRename ==
    (life.clean /\ life.rec # None) =>
        /\ (Handled /\ cur.kind = "update")
            => calls = <<ClosedUpdate(life.rec)>>
        /\ (life.phase \in {"closed", "deleted"}
                /\ (cur.kind = "update" => Handled /\ resp = "ok"))
            => remote[life.rec].closes = 1
        /\ (life.phase \in {"closed", "deleted"}
                /\ cur.kind \in {"delete", "message"})
            => calls = <<>>

\* The renamed channel has been deleted and the deletion handled.
C19_Witness ==
    /\ life.clean
    /\ life.rec # None
    /\ life.phase = "deleted"
    /\ Handled
    /\ cur.kind = "delete"
    /\ calls = <<>>
    /\ remote[life.rec] = [status |-> "Closed", closes |-> 1]

====
